---- MODULE Spec2Model ----
(***************************************************************************)
(* Model of packages/openapi/src/ui/playground/fetcher.ts:                 *)
(*   createBrowserFetcher(bodySchema, references).fetch(input),            *)
(*   createBodyFromValue, convertValue and getDynamicFieldSchema.          *)
(*                                                                         *)
(* JavaScript values are tagged records (field k is the tag).  A JSON text *)
(* is the sequence of its lexical tokens.  A thrown exception is a value   *)
(* of tag "throw" that every caller passes on unchanged.                   *)
(***************************************************************************)
EXTENDS Integers, Sequences, FiniteSets, TLC

VARIABLES
    pc,             \* position of the invocation
    type,           \* input.type: "json" | "form-data"
    value,          \* input.body, the raw value
    bodySchema,     \* the schema the fetcher was created with (NoSchema: undefined)
    dynamicFields,  \* input.dynamicFields
    header,         \* input.header
    headers,        \* the Headers container built by fetch()
    result,         \* what convertValue returned for the root value
    body,           \* what createBodyFromValue returned (or threw)
    requests,       \* number of network requests issued
    aborted,        \* the in-flight request was aborted by the timeout signal
    response,       \* the response received from the network, if any
    error,          \* the reason the promise chain is rejected with, if any
    settled,        \* number of times the returned promise was settled
    outcome,        \* the FetchResult (or the rejection) the caller receives
    clock           \* milliseconds since AbortSignal.timeout was created

vars == <<pc, type, value, bodySchema, dynamicFields, header, headers, result,
          body, requests, aborted, response, error, settled, outcome, clock>>

(***************************************************************************)
(* Bounds of the model.                                                    *)
(***************************************************************************)
MaxArrayLen == 2    \* longest array among the raw input values
TickMs == 2000      \* granularity of the clock, in milliseconds
StackLimit == 10    \* call-stack frames available to convertValue

(***************************************************************************)
(* JavaScript values.                                                      *)
(***************************************************************************)
Undef == [k |-> "undefined"]
Null == [k |-> "null"]
NaN == [k |-> "nan"]
Str(s) == [k |-> "string", s |-> s]
Num(n) == [k |-> "number", n |-> n]
Bool(b) == [k |-> "boolean", b |-> b]
File(i) == [k |-> "file", id |-> i]
Arr(items) == [k |-> "array", items |-> items]
Obj(keys, vals) == [k |-> "object", keys |-> keys, vals |-> vals]
Throw(name, message) == [k |-> "throw", name |-> name, message |-> message]

IsThrow(v) == v.k = "throw"
IsFile(v) == v.k = "file"
IsArray(v) == v.k = "array"

\* typeof v
TypeOf(v) ==
    CASE v.k = "undefined" -> "undefined"
      [] v.k = "string" -> "string"
      [] v.k \in {"number", "nan"} -> "number"
      [] v.k = "boolean" -> "boolean"
      [] OTHER -> "object"

\* ToBoolean(v): the falsy values are undefined, null, false, 0, NaN and ''
Truthy(v) ==
    CASE v.k \in {"undefined", "null", "nan"} -> FALSE
      [] v.k = "boolean" -> v.b
      [] v.k = "number" -> v.n # 0
      [] v.k = "string" -> v.s # ""
      [] OTHER -> TRUE

\* Object.keys(v) of an object value: own enumerable string keys, in order.
\* An array has its indices, a File has none.
OwnKeys(v) ==
    CASE v.k = "object" -> v.keys
      [] v.k = "array" -> [i \in 1..Len(v.items) |-> ToString(i - 1)]
      [] OTHER -> <<>>

\* v[key] for the i-th own key
OwnValue(v, i) ==
    IF v.k = "object" THEN v.vals[i] ELSE v.items[i]

RECURSIVE JoinFrom(_, _)
RECURSIVE JSString(_)
\* String(v)
JSString(v) ==
    CASE v.k = "string" -> v.s
      [] v.k = "number" -> ToString(v.n)
      [] v.k = "nan" -> "NaN"
      [] v.k = "boolean" -> IF v.b THEN "true" ELSE "false"
      [] v.k = "undefined" -> "undefined"
      [] v.k = "null" -> "null"
      [] v.k = "file" -> "[object File]"
      [] v.k = "array" -> JoinFrom(v.items, 1)
      [] OTHER -> "[object Object]"

\* Array.prototype.join(','): null and undefined elements give ''
JoinFrom(items, i) ==
    IF i > Len(items) THEN ""
    ELSE LET e == items[i]
             s == IF e.k \in {"undefined", "null"} THEN "" ELSE JSString(e)
         IN  IF i = Len(items) THEN s ELSE s \o "," \o JoinFrom(items, i + 1)

\* StringToNumber on the strings the model can build: the decimal literals
\* among them are "0", "1" and "42"; '' is 0; every other string is NaN.
StringToNumber(s) ==
    CASE s = "" -> Num(0)
      [] s = "0" -> Num(0)
      [] s = "1" -> Num(1)
      [] s = "42" -> Num(42)
      [] OTHER -> NaN

\* Number(v)
JSNumber(v) ==
    CASE v.k \in {"number", "nan"} -> v
      [] v.k = "boolean" -> IF v.b THEN Num(1) ELSE Num(0)
      [] v.k = "null" -> Num(0)
      [] v.k = "undefined" -> NaN
      [] OTHER -> StringToNumber(JSString(v))

(***************************************************************************)
(* Schemas (RequestSchema | ReferenceSchema) and the reference table.      *)
(***************************************************************************)
Prim(t, req) == [type |-> t, isRequired |-> req]
ArrayOf(items, req) == [type |-> "array", isRequired |-> req, items |-> items]
ObjectOf(props, additional, req) ==
    [type |-> "object", isRequired |-> req, properties |-> props,
     additionalProperties |-> additional]
Ref(name) == [type |-> "ref", schema |-> name]
NoProps == <<>>
\* what a lookup of a name the table does not hold gives: undefined
NoSchema == [type |-> "undefined"]

\* resolve(schema, references): a reference is looked up in the table, one
\* hop; a concrete schema is returned as it is.
resolve(schema, references) ==
    IF schema.type = "ref"
    THEN IF schema.schema \in DOMAIN references
         THEN references[schema.schema] ELSE NoSchema
    ELSE schema

\* getDynamicFieldSchema(name, dynamicFields)
getDynamicFieldSchema(name, dyn) ==
    IF name \in DOMAIN dyn /\ dyn[name].type = "field"
    THEN dyn[name].schema
    ELSE Prim("null", FALSE)

(***************************************************************************)
(* convertValue.                                                           *)
(***************************************************************************)
\* value === '' || value === undefined || value === null
isEmpty(v) == (v.k = "string" /\ v.s = "") \/ v.k = "undefined" \/ v.k = "null"

\* EmptyDefault without the case of the boolean schema
EmptyDefaultNoBoolean(schema) == Str("")

\* the value a required field with empty input is given
EmptyDefault(schema) == IF schema.type = "boolean" THEN Bool(FALSE) ELSE Str("")

\* EmptyOptional giving null in place of undefined
EmptyOptionalNull == Null

\* the value an optional field with empty input is given
EmptyOptional == Undef

\* ElementFieldName without the index
ElementFieldNameNoIndex(fieldName, index) == fieldName

\* `${fieldName}.${String(index)}`
ElementFieldName(fieldName, index) == fieldName \o "." \o ToString(index)

\* `${fieldName}.${key}`
PropFieldName(fieldName, key) == fieldName \o "." \o key

\* the final switch on schema.type
convertPrimitive(v, schema) ==
    CASE schema.type = "number" -> JSNumber(v)
      [] schema.type = "boolean" ->
            IF v.k = "string" /\ v.s = "null" THEN Undef
            ELSE Bool(v.k = "string" /\ v.s = "true")
      [] schema.type = "file" -> v
      [] OTHER -> Str(JSString(v))

\* the schema an object key that is no declared property is converted with
\* when additional properties are allowed
AdditionalSchema(propFieldName, references, dyn) ==
    resolve(getDynamicFieldSchema(propFieldName, dyn), references)

\* Unresolved coercing the raw value to a string
UnresolvedCoerced(key, prop) == Str(JSString(prop))

\* the entry of an object key that cannot be resolved: the raw value
Unresolved(key, prop) == prop

\* the first exception among the results of the calls made in order, if any
FirstThrow(rs) ==
    IF \E i \in 1..Len(rs) : IsThrow(rs[i])
    THEN rs[CHOOSE i \in 1..Len(rs) :
                IsThrow(rs[i]) /\ \A j \in 1..(i - 1) : ~IsThrow(rs[j])]
    ELSE Undef

\* frames: the call-stack frames left; a call with none left throws RangeError.
RECURSIVE convertValue(_, _, _, _, _, _)
convertValue(frames, fieldName, v, schema, references, dyn) ==
    IF frames = 0
    THEN Throw("RangeError", "Maximum call stack size exceeded")
    ELSE IF schema.type = "undefined"
    THEN Throw("TypeError", "Cannot read properties of undefined")
    ELSE IF isEmpty(v) /\ schema.isRequired THEN EmptyDefault(schema)
    ELSE IF isEmpty(v) THEN EmptyOptional
    ELSE IF IsArray(v) /\ schema.type = "array"
    THEN LET rs == [i \in 1..Len(v.items) |->
                      convertValue(frames - 1, ElementFieldName(fieldName, i - 1),
                                   v.items[i], resolve(schema.items, references),
                                   references, dyn)]
         IN  IF IsThrow(FirstThrow(rs)) THEN FirstThrow(rs) ELSE Arr(rs)
    ELSE IF schema.type = "switcher"
    THEN convertValue(frames - 1, fieldName, v,
                      resolve(getDynamicFieldSchema(fieldName, dyn), references),
                      references, dyn)
    ELSE IF TypeOf(v) = "object" /\ schema.type = "object"
    THEN LET keys == OwnKeys(v)
             rs == [i \in 1..Len(keys) |->
                      LET key == keys[i]
                          prop == OwnValue(v, i)
                          propFieldName == PropFieldName(fieldName, key)
                      IN  IF key \in DOMAIN schema.properties
                          THEN convertValue(frames - 1, propFieldName, prop,
                                            resolve(schema.properties[key], references),
                                            references, dyn)
                          ELSE IF schema.additionalProperties
                          THEN convertValue(frames - 1, propFieldName, prop,
                                            AdditionalSchema(propFieldName, references, dyn),
                                            references, dyn)
                          ELSE Unresolved(key, prop)]
         IN  IF IsThrow(FirstThrow(rs)) THEN FirstThrow(rs) ELSE Obj(keys, rs)
    ELSE convertPrimitive(v, schema)

(***************************************************************************)
(* JSON.stringify.  The text is modelled as its sequence of tokens.        *)
(***************************************************************************)
Punct(c) == [t |-> "punct", c |-> c]
TString(s) == [t |-> "string", s |-> s]
TNumber(n) == [t |-> "number", n |-> n]
TLiteral(l) == [t |-> "literal", l |-> l]
Text(tokens) == [k |-> "text", tokens |-> tokens]

RECURSIVE SerializeJSONProperty(_)
RECURSIVE SerializeElements(_, _)
RECURSIVE SerializeMembers(_, _, _)

\* the tokens of a value, or <<>> where JSON.stringify gives undefined
SerializeJSONProperty(v) ==
    CASE v.k = "undefined" -> <<>>
      [] v.k = "null" -> <<TLiteral("null")>>
      [] v.k = "nan" -> <<TLiteral("null")>>
      [] v.k = "boolean" -> <<TLiteral(IF v.b THEN "true" ELSE "false")>>
      [] v.k = "number" -> <<TNumber(v.n)>>
      [] v.k = "string" -> <<TString(v.s)>>
      [] v.k = "file" -> <<Punct("{"), Punct("}")>>
      [] v.k = "array" ->
            <<Punct("[")>> \o SerializeElements(v.items, 1) \o <<Punct("]")>>
      [] OTHER ->
            <<Punct("{")>> \o SerializeMembers(v, 1, TRUE) \o <<Punct("}")>>

\* array elements: an undefined element is written null
SerializeElements(items, i) ==
    IF i > Len(items) THEN <<>>
    ELSE LET t == SerializeJSONProperty(items[i])
         IN  (IF i > 1 THEN <<Punct(",")>> ELSE <<>>)
             \o (IF t = <<>> THEN <<TLiteral("null")>> ELSE t)
             \o SerializeElements(items, i + 1)

\* object members: a key whose value is undefined is left out
SerializeMembers(o, i, first) ==
    IF i > Len(o.keys) THEN <<>>
    ELSE LET t == SerializeJSONProperty(o.vals[i])
         IN  IF t = <<>> THEN SerializeMembers(o, i + 1, first)
             ELSE (IF first THEN <<>> ELSE <<Punct(",")>>)
                  \o <<TString(o.keys[i]), Punct(":")>> \o t
                  \o SerializeMembers(o, i + 1, FALSE)

\* JSON.stringify(v): a text, or undefined
JSONstringify(v) ==
    LET t == SerializeJSONProperty(v)
    IN  IF t = <<>> THEN Undef ELSE Text(t)

(***************************************************************************)
(* FormData: the list of its entries.                                      *)
(***************************************************************************)
Entry(name, v) == [name |-> name, value |-> v]

RECURSIVE WithoutName(_, _)
WithoutName(fd, name) ==
    IF fd = <<>> THEN <<>>
    ELSE IF Head(fd).name = name THEN WithoutName(Tail(fd), name)
    ELSE <<Head(fd)>> \o WithoutName(Tail(fd), name)

\* formData.append(name, v)
FormDataAppend(fd, name, v) == Append(fd, Entry(name, v))

\* formData.set(name, v): replaces the first entry of that name and removes
\* the others, or appends
FormDataSet(fd, name, v) ==
    IF \E i \in 1..Len(fd) : fd[i].name = name
    THEN LET first == CHOOSE i \in 1..Len(fd) :
                        fd[i].name = name /\ \A j \in 1..(i - 1) : fd[j].name # name
         IN  SubSeq(fd, 1, first - 1) \o <<Entry(name, v)>>
             \o WithoutName(SubSeq(fd, first + 1, Len(fd)), name)
    ELSE FormDataAppend(fd, name, v)

RECURSIVE AppendAll(_, _, _, _)
AppendAll(fd, name, items, i) ==
    IF i > Len(items) THEN fd
    ELSE AppendAll(FormDataAppend(fd, name, items[i]), name, items, i + 1)

(***************************************************************************)
(* createBodyFromValue.                                                    *)
(***************************************************************************)
IsFileArray(prop) ==
    IsArray(prop) /\ \A i \in 1..Len(prop.items) : IsFile(prop.items[i])

\* the guard of the text entry: if (prop && !(prop instanceof File))
TextEntryGuard(prop) == Truthy(prop) /\ ~IsFile(prop)

\* one turn of the loop over Object.keys(result)
FormDataStep(fd, key, prop) ==
    LET fd1 == IF IsFile(prop) THEN FormDataSet(fd, key, prop) ELSE fd
        fd2 == IF IsFileArray(prop) THEN AppendAll(fd1, key, prop.items, 1) ELSE fd1
    IN  IF TextEntryGuard(prop)
        THEN FormDataSet(fd2, key, JSONstringify(prop))
        ELSE fd2

RECURSIVE FormDataLoop(_, _, _)
FormDataLoop(fd, res, i) ==
    IF i > Len(OwnKeys(res)) THEN fd
    ELSE FormDataLoop(FormDataStep(fd, OwnKeys(res)[i], OwnValue(res, i)), res, i + 1)

FormData(entries) == [k |-> "formdata", entries |-> entries]

\* the body made of the converted root value
BodyOfResult(t, res) ==
    IF IsThrow(res) THEN res
    ELSE IF t = "json" THEN JSONstringify(res)
    ELSE IF TypeOf(res) # "object" \/ res.k = "null"
    THEN Throw("Error",
               "Unsupported body type: " \o TypeOf(res) \o ", expected: object")
    ELSE FormData(FormDataLoop(<<>>, res, 1))

createBodyFromValue(t, v, schema, references, dyn) ==
    BodyOfResult(t, convertValue(StackLimit, "body", v, schema, references, dyn))

(***************************************************************************)
(* JSON.parse, as res.json() applies it to the response text.              *)
(***************************************************************************)
ParseFail == [ok |-> FALSE]
Parsed(v, next) == [ok |-> TRUE, v |-> v, next |-> next]
IsPunct(t, i, c) == i <= Len(t) /\ t[i].t = "punct" /\ t[i].c = c

RECURSIVE ParseValue(_, _)
RECURSIVE ParseElements(_, _, _)
RECURSIVE ParseMembers(_, _, _, _)

ParseValue(t, i) ==
    IF i > Len(t) THEN ParseFail
    ELSE CASE t[i].t = "string" -> Parsed(Str(t[i].s), i + 1)
           [] t[i].t = "number" -> Parsed(Num(t[i].n), i + 1)
           [] t[i].t = "literal" ->
                 Parsed(IF t[i].l = "null" THEN Null ELSE Bool(t[i].l = "true"), i + 1)
           [] IsPunct(t, i, "[") ->
                 IF IsPunct(t, i + 1, "]") THEN Parsed(Arr(<<>>), i + 2)
                 ELSE ParseElements(t, i + 1, <<>>)
           [] IsPunct(t, i, "{") ->
                 IF IsPunct(t, i + 1, "}") THEN Parsed(Obj(<<>>, <<>>), i + 2)
                 ELSE ParseMembers(t, i + 1, <<>>, <<>>)
           [] OTHER -> ParseFail

ParseElements(t, i, acc) ==
    LET r == ParseValue(t, i)
    IN  IF ~r.ok THEN ParseFail
        ELSE IF IsPunct(t, r.next, ",")
        THEN ParseElements(t, r.next + 1, Append(acc, r.v))
        ELSE IF IsPunct(t, r.next, "]")
        THEN Parsed(Arr(Append(acc, r.v)), r.next + 1)
        ELSE ParseFail

ParseMembers(t, i, keys, vals) ==
    IF ~(i <= Len(t) /\ t[i].t = "string" /\ IsPunct(t, i + 1, ":")) THEN ParseFail
    ELSE LET r == ParseValue(t, i + 2)
         IN  IF ~r.ok THEN ParseFail
             ELSE IF IsPunct(t, r.next, ",")
             THEN ParseMembers(t, r.next + 1, Append(keys, t[i].s), Append(vals, r.v))
             ELSE IF IsPunct(t, r.next, "}")
             THEN Parsed(Obj(Append(keys, t[i].s), Append(vals, r.v)), r.next + 1)
             ELSE ParseFail

\* JSON.parse(text): the value, or a SyntaxError
JSONparse(tokens) ==
    LET r == ParseValue(tokens, 1)
    IN  IF r.ok /\ r.next = Len(tokens) + 1 THEN r.v
        ELSE Throw("SyntaxError", "Unexpected token in JSON")

(***************************************************************************)
(* The schemas, reference table, dynamic fields and raw values the model   *)
(* draws its inputs from.                                                  *)
(***************************************************************************)
\* Node refers to itself: a cyclic definition
references ==
    [Node |-> ObjectOf([a |-> Ref("Node"), b |-> Prim("string", TRUE)], FALSE, FALSE),
     Flag |-> Prim("boolean", TRUE),
     Choice |-> Prim("switcher", FALSE)]

Schemas ==
    << Prim("string", FALSE), Prim("string", TRUE), Prim("boolean", TRUE),
       Prim("number", FALSE), Prim("file", FALSE),
       Prim("switcher", FALSE), Prim("switcher", TRUE),
       ArrayOf(Prim("file", FALSE), FALSE),
       ArrayOf(Ref("Flag"), TRUE),
       ArrayOf(Prim("switcher", TRUE), FALSE),
       ObjectOf([a |-> ArrayOf(Prim("file", FALSE), FALSE), b |-> Ref("Flag")],
                FALSE, TRUE),
       ObjectOf([a |-> Prim("switcher", FALSE), b |-> Prim("number", FALSE)],
                FALSE, FALSE),
       ObjectOf([a |-> ArrayOf(ObjectOf([b |-> Prim("switcher", FALSE)], TRUE, TRUE),
                               FALSE),
                 b |-> Prim("string", TRUE)], FALSE, FALSE),
       ObjectOf(NoProps, TRUE, FALSE),
       ObjectOf(NoProps, FALSE, FALSE),
       ObjectOf([a |-> Prim("number", FALSE)], TRUE, FALSE),
       ObjectOf([a |-> Prim("number", TRUE)], FALSE, FALSE),
       ObjectOf([a |-> Prim("string", TRUE), b |-> Prim("number", FALSE)],
                FALSE, TRUE),
       references.Node >>

Field(schema) == [type |-> "field", schema |-> schema]
ObjectField == [type |-> "object", properties |-> <<"a">>]

DynamicMaps ==
    << <<>>,
       ("body" :> Field(Prim("number", FALSE)))
         @@ ("body.a" :> Field(Prim("number", TRUE)))
         @@ ("body.b" :> ObjectField)
         @@ ("body.0" :> Field(Prim("number", FALSE)))
         @@ ("body.a.0" :> Field(Ref("Flag")))
         @@ ("body.a.0.b" :> Field(Prim("number", FALSE))),
       ("body" :> Field(Prim("switcher", FALSE)))
         @@ ("body.a" :> Field(Ref("Choice")))
         @@ ("body.b" :> Field(Ref("Missing"))),
       ("body" :> Field(ArrayOf(Prim("switcher", FALSE), FALSE)))
         @@ ("body.0" :> Field(Prim("number", FALSE)))
         @@ ("body.a" :> Field(ObjectOf([b |-> Prim("switcher", TRUE)], TRUE, FALSE)))
         @@ ("body.a.b" :> Field(Prim("boolean", TRUE)))
         @@ ("body.b" :> Field(Prim("file", FALSE))) >>

\* type: 'form-data' | 'json'
Encodings == <<"form-data", "json">>

Files == {File(1), File(2)}
Atoms ==
    {Undef, Null, Str(""), Str("x"), Str("42"), Str("true"), Str("null"),
     Num(0), Num(42), Bool(FALSE)} \cup Files
Elements == {Str(""), Obj(<<"b">>, <<Str("42")>>)} \cup Files
Arrays == {Arr(s) : s \in UNION {[1..n -> Elements] : n \in 0..MaxArrayLen}}
PropsA ==
    Atoms \cup Arrays
    \cup {Obj(<<>>, <<>>), Obj(<<"b">>, <<Str("x")>>), Obj(<<"a", "b">>, <<Null, Str("")>>)}
PropsB == {Undef, Str(""), Str("true"), Num(0)}
Objects ==
    {Obj(<<>>, <<>>)}
    \cup {Obj(<<"a">>, <<x>>) : x \in PropsA}
    \cup {Obj(<<"b">>, <<y>>) : y \in PropsB}
    \cup {Obj(<<"a", "b">>, <<x, y>>) : x \in PropsA, y \in PropsB}
Values == Atoms \cup Arrays \cup Objects

(***************************************************************************)
(* The states of an invocation.                                            *)
(***************************************************************************)
Pending == [k |-> "pending"]
FetchResult(status, t, data) == [k |-> "result", status |-> status, type |-> t, data |-> data]
Rejected(reason) == [k |-> "rejected", reason |-> reason]
NoResponse == [k |-> "none"]
NoError == [k |-> "none"]
\* an exception object: an instance of Error with a name and a message
ErrorObject(name, message) ==
    [k |-> "error", isError |-> TRUE, name |-> name, message |-> message,
     str |-> name \o ": " \o message]
ErrorOfThrow(th) == ErrorObject(th.name, th.message)

TimeoutMs == 6000

Idle ==
    /\ headers = <<>>
    /\ result = Undef
    /\ body = Undef
    /\ requests = 0
    /\ aborted = FALSE
    /\ response = NoResponse
    /\ error = NoError
    /\ settled = 0
    /\ outcome = Pending
    /\ clock = 0

(***************************************************************************)
(* createBodyFromValue applied to every input: the body specification.     *)
(***************************************************************************)
InitBody ==
    /\ pc = "call"
    /\ \E i \in 1..Len(Encodings) : type = Encodings[i]
    /\ value \in Values
    /\ \E i \in 1..Len(Schemas) : bodySchema = Schemas[i]
    /\ \E i \in 1..Len(DynamicMaps) : dynamicFields = DynamicMaps[i]
    /\ header = <<>>
    /\ Idle

CreateBody ==
    /\ pc = "call"
    /\ result' = convertValue(StackLimit, "body", value, bodySchema, references,
                              dynamicFields)
    /\ body' = createBodyFromValue(type, value, bodySchema, references, dynamicFields)
    /\ pc' = IF IsThrow(body') THEN "thrown" ELSE "returned"
    /\ UNCHANGED <<type, value, bodySchema, dynamicFields, header, headers, requests,
                   aborted, response, error, settled, outcome, clock>>

NextBody == CreateBody

SpecBody == InitBody /\ [][NextBody]_vars

(***************************************************************************)
(* createBrowserFetcher(bodySchema, references).fetch(input).               *)
(***************************************************************************)
\* bodySchema is undefined: the fetcher was created without a body schema
HeaderMaps ==
    << <<>>,
       << <<"Authorization", Str("token")>>, <<"X-Empty", Str("")>>,
          <<"X-Count", Num(42)>>, <<"X-None", Undef>> >>,
       << <<"Accept", Str("text/html")>>, <<"bad name", Str("v")>> >> >>

\* names Headers.append rejects with a TypeError
InvalidHeaderNames == {"bad name"}

\* the bodies and schemas fetch is called with
FetchCases ==
    << [value |-> Str("x"), schema |-> NoSchema, dyn |-> DynamicMaps[1]],
       [value |-> Obj(<<"a">>, <<Str("x")>>), schema |-> Schemas[18], dyn |-> DynamicMaps[1]],
       [value |-> Str("x"), schema |-> Schemas[1], dyn |-> DynamicMaps[1]],
       [value |-> Str(""), schema |-> Schemas[1], dyn |-> DynamicMaps[1]],
       [value |-> Str("42"), schema |-> Schemas[6], dyn |-> DynamicMaps[2]],
       [value |-> Str("42"), schema |-> Schemas[6], dyn |-> DynamicMaps[3]],
       [value |-> Obj(<<"a", "b">>, <<Arr(<<File(1), File(2)>>), Str("true")>>),
        schema |-> Schemas[11], dyn |-> DynamicMaps[1]] >>

Statuses == {200, 404}
ContentTypes ==
    {Null, Str("application/json"), Str("application/json; charset=utf-8"),
     Str("text/html"), Str("text/html; charset=utf-8"), Str("text/plain")}
MediaSuffixes == {"", "; charset=utf-8"}
\* the response texts: a JSON text, and a page that is no JSON text
ResponseTexts ==
    { <<Punct("{"), TString("ok"), Punct(":"), TLiteral("true"), Punct("}")>>,
      <<[t |-> "markup", s |-> "<html>"]>> }

\* s.startsWith(prefix), for the content types above
StartsWith(s, prefix) == \E suffix \in MediaSuffixes : s = prefix \o suffix

Init ==
    /\ pc = "start"
    /\ \E i \in 1..Len(HeaderMaps) : header = HeaderMaps[i]
    /\ \E i \in 1..Len(Encodings) : type = Encodings[i]
    /\ \E i \in 1..Len(FetchCases) :
          /\ value = FetchCases[i].value
          /\ bodySchema = FetchCases[i].schema
          /\ dynamicFields = FetchCases[i].dyn
    /\ Idle

RECURSIVE AppendHeaders(_, _, _)
\* the loop over Object.keys(input.header); a throw of Headers.append ends it
AppendHeaders(hs, h, i) ==
    IF i > Len(h) THEN [k |-> "headers", list |-> hs]
    ELSE LET key == h[i][1]
             paramValue == h[i][2]
         IN  IF paramValue.k = "string" /\ Len(paramValue.s) > 0
             THEN IF key \in InvalidHeaderNames
                  THEN Throw("TypeError", "Invalid name")
                  ELSE AppendHeaders(Append(hs, <<key, paramValue.s>>), h, i + 1)
             ELSE AppendHeaders(hs, h, i + 1)

BuiltHeaders ==
    AppendHeaders(IF type # "form-data"
                  THEN << <<"Content-Type", "application/json">> >> ELSE <<>>,
                  header, 1)

\* an exception thrown before the fetch call rejects the promise of the
\* async function
RejectWith(th) ==
    /\ pc' = "rejected"
    /\ settled' = settled + 1
    /\ outcome' = Rejected(ErrorOfThrow(th))

\* the synchronous part of fetch(input): the headers, the body argument,
\* then the call fetch(input.url, {..., signal: AbortSignal.timeout(6000)})
Call ==
    /\ pc = "start"
    /\ IF IsThrow(BuiltHeaders)
       THEN /\ RejectWith(BuiltHeaders)
            /\ UNCHANGED <<headers, result, body, requests>>
       ELSE /\ headers' = BuiltHeaders.list
            /\ IF bodySchema.type = "undefined"
               THEN UNCHANGED <<result, body>>
               ELSE /\ result' = convertValue(StackLimit, "body", value, bodySchema,
                                              references, dynamicFields)
                    /\ body' = createBodyFromValue(type, value, bodySchema,
                                                   references, dynamicFields)
            /\ IF IsThrow(body')
               THEN RejectWith(body') /\ UNCHANGED requests
               ELSE /\ requests' = requests + 1
                    /\ pc' = "inflight"
                    /\ UNCHANGED <<settled, outcome>>
    /\ UNCHANGED <<type, value, bodySchema, dynamicFields, header, aborted,
                   response, error, clock>>

Waiting == pc \in {"inflight", "reading"}

Tick ==
    /\ Waiting
    /\ clock < TimeoutMs
    /\ clock' = clock + TickMs
    /\ UNCHANGED <<pc, type, value, bodySchema, dynamicFields, header, headers, result,
                   body, requests, aborted, response, error, settled, outcome>>

\* the request fails: the promise of fetch() rejects with a TypeError
NetworkError ==
    /\ pc = "inflight"
    /\ error' = ErrorObject("TypeError", "Failed to fetch")
    /\ pc' = "catch"
    /\ UNCHANGED <<type, value, bodySchema, dynamicFields, header, headers, result,
                   body, requests, aborted, response, settled, outcome, clock>>

\* the timeout signal fires: the request, or the reading of the response
\* body, is aborted and its promise rejects with the signal's TimeoutError
Timeout ==
    /\ Waiting
    /\ clock >= TimeoutMs
    /\ aborted' = TRUE
    /\ error' = ErrorObject("TimeoutError", "signal timed out")
    /\ pc' = "catch"
    /\ UNCHANGED <<type, value, bodySchema, dynamicFields, header, headers, result,
                   body, requests, response, settled, outcome, clock>>

\* the response's headers arrive: the then-handler starts to read the body
ResponseArrives ==
    /\ pc = "inflight"
    /\ \E status \in Statuses, ct \in ContentTypes, text \in ResponseTexts,
          broken \in BOOLEAN :
          response' = [k |-> "response", status |-> status, contentType |-> ct,
                       text |-> text, broken |-> broken]
    /\ pc' = "reading"
    /\ UNCHANGED <<type, value, bodySchema, dynamicFields, header, headers, result,
                   body, requests, aborted, error, settled, outcome, clock>>

\* res.headers.get('Content-Type') ?? ''
ContentTypeOf(res) == IF res.contentType.k = "null" THEN "" ELSE res.contentType.s

\* the type the then-handler gives the result
ResultType(res) ==
    IF StartsWith(ContentTypeOf(res), "application/json") THEN "json"
    ELSE IF StartsWith(ContentTypeOf(res), "text/html") THEN "html"
    ELSE "text"

\* await res.json() or await res.text(): the data, or the exception
ResponseData(res) ==
    IF res.broken THEN Throw("TypeError", "Failed to fetch")
    ELSE IF ResultType(res) = "json" THEN JSONparse(res.text)
    ELSE Text(res.text)

\* the body has been read: the then-handler returns the result, or throws
ThenHandler ==
    /\ pc = "reading"
    /\ IF IsThrow(ResponseData(response))
       THEN /\ error' = ErrorOfThrow(ResponseData(response))
            /\ pc' = "catch"
            /\ UNCHANGED <<settled, outcome>>
       ELSE /\ outcome' = FetchResult(response.status, ResultType(response),
                                      ResponseData(response))
            /\ settled' = settled + 1
            /\ pc' = "resolved"
            /\ UNCHANGED error
    /\ UNCHANGED <<type, value, bodySchema, dynamicFields, header, headers, result,
                   body, requests, aborted, response, clock>>

\* the message the catch-handler builds
ErrorMessage(e) ==
    IF e.isError THEN "[" \o e.name \o "] " \o e.message ELSE e.str

\* CatchHandler throwing the error again
CatchHandlerRethrows ==
    /\ pc = "catch"
    /\ outcome' = Rejected(error)
    /\ settled' = settled + 1
    /\ pc' = "rejected"
    /\ UNCHANGED <<type, value, bodySchema, dynamicFields, header, headers, result,
                   body, requests, aborted, response, error, clock>>

\* CatchHandler issuing the request again
CatchHandlerRetries ==
    /\ pc = "catch"
    /\ requests' = requests + 1
    /\ error' = NoError
    /\ pc' = "inflight"
    /\ UNCHANGED <<type, value, bodySchema, dynamicFields, header, headers, result,
                   body, aborted, response, settled, outcome, clock>>

CatchHandler ==
    /\ pc = "catch"
    /\ outcome' = FetchResult(400, "text",
                              Str("Client side error: " \o ErrorMessage(error)))
    /\ settled' = settled + 1
    /\ pc' = "resolved"
    /\ UNCHANGED <<type, value, bodySchema, dynamicFields, header, headers, result,
                   body, requests, aborted, response, error, clock>>

Next ==
    \/ Call
    \/ Tick
    \/ NetworkError
    \/ Timeout
    \/ ResponseArrives
    \/ ThenHandler
    \/ CatchHandler

Spec == Init /\ [][Next]_vars

(***************************************************************************)
(* The fields of the root value: the positions convertValue reaches by     *)
(* way of declared properties and array items.  A position is the sequence *)
(* of the steps from the root: the index of an array element, or the index *)
(* in KeyNames of a declared property.  The payload is read back from the  *)
(* body: a JSON text is parsed, a form container is the object of its      *)
(* entries, each text entry parsed.                                        *)
(***************************************************************************)
KeyNames == <<"a", "b">>
Missing == [k |-> "missing"]

IndexOf(keys, key) ==
    IF \E i \in 1..Len(keys) : keys[i] = key
    THEN CHOOSE i \in 1..Len(keys) : keys[i] = key
    ELSE 0

\* the member of a value under a name (an object) or at an index (an array)
Member(v, name, idx) ==
    IF v.k = "object" /\ IndexOf(v.keys, name) > 0 THEN v.vals[IndexOf(v.keys, name)]
    ELSE IF v.k = "array" /\ idx >= 1 /\ idx <= Len(v.items) THEN v.items[idx]
    ELSE Missing

EntriesUnder(entries, name) ==
    SelectSeq(entries, LAMBDA e : e.name = name)

RECURSIVE EntryNames(_)
EntryNames(entries) ==
    IF entries = <<>> THEN <<>>
    ELSE <<Head(entries).name>> \o EntryNames(WithoutName(Tail(entries), Head(entries).name))

\* what the receiver reads back from a body
Payload(b) ==
    IF b.k = "text" THEN JSONparse(b.tokens)
    ELSE IF b.k = "formdata"
    THEN LET names == EntryNames(b.entries)
         IN  Obj(names,
                 [i \in 1..Len(names) |->
                    LET e == EntriesUnder(b.entries, names[i])[1].value
                    IN  IF e.k = "text" THEN JSONparse(e.tokens) ELSE e])
    ELSE Missing

\* the schema the dynamic-field map binds to a path
BoundSchema(path) ==
    IF path \in DOMAIN dynamicFields /\ dynamicFields[path].type = "field"
    THEN dynamicFields[path].schema
    ELSE Prim("null", FALSE)

\* schema: the schema the field is declared with; eff: the schema its
\* members are converted by, the one bound to its path when it is a switcher
FieldNode(path, raw, present, schema, out, pay, kind, name) ==
    [path |-> path, raw |-> raw, present |-> present, schema |-> schema,
     eff |-> IF schema.type = "switcher"
             THEN resolve(BoundSchema(path), references) ELSE schema,
     out |-> out, pay |-> pay, kind |-> kind, name |-> name]

RootNode ==
    FieldNode("body", value, TRUE, bodySchema, result, Payload(body), "root", "body")

ArrayMatch(n) == n.present /\ n.raw.k = "array" /\ n.eff.type = "array"
ObjectMatch(n) == n.present /\ n.raw.k = "object" /\ n.eff.type = "object"

Declared(n, key) == key \in DOMAIN n.eff.properties

\* the members of a field: the elements of an array, the declared properties
\* of an object and, where additional properties are allowed, its other keys
Steps(n) ==
    IF ArrayMatch(n) THEN 1..Len(n.raw.items)
    ELSE IF ObjectMatch(n)
    THEN {j \in 1..Len(KeyNames) :
            \/ Declared(n, KeyNames[j])
            \/ n.eff.additionalProperties /\ IndexOf(n.raw.keys, KeyNames[j]) > 0}
    ELSE {}

Child(n, step) ==
    IF ArrayMatch(n)
    THEN FieldNode(n.path \o "." \o ToString(step - 1), n.raw.items[step], TRUE,
                   resolve(n.eff.items, references),
                   Member(n.out, ToString(step - 1), step),
                   Member(n.pay, ToString(step - 1), step),
                   "element", ToString(step - 1))
    ELSE LET key == KeyNames[step]
             i == IndexOf(n.raw.keys, key)
         IN  FieldNode(n.path \o "." \o key,
                       IF i > 0 THEN n.raw.vals[i] ELSE Undef, i > 0,
                       IF Declared(n, key)
                       THEN resolve(n.eff.properties[key], references)
                       ELSE resolve(BoundSchema(n.path \o "." \o key), references),
                       Member(n.out, key, 0), Member(n.pay, key, 0),
                       "property", key)

RECURSIVE PositionsFrom(_)
PositionsFrom(n) ==
    {<<>>} \cup UNION {{<<step>> \o p : p \in PositionsFrom(Child(n, step))} :
                         step \in Steps(n)}

RECURSIVE NodeFrom(_, _)
NodeFrom(n, pos) ==
    IF pos = <<>> THEN n ELSE NodeFrom(Child(n, Head(pos)), Tail(pos))

Positions == PositionsFrom(RootNode)
NodeAt(pos) == NodeFrom(RootNode, pos)

\* convertValue has returned a value for the root
Converted == pc \in {"returned", "thrown"} /\ ~IsThrow(result)

(***************************************************************************)
(* Properties of createBodyFromValue and convertValue (SpecBody).          *)
(***************************************************************************)
FormKeys == OwnKeys(result)
FormProp(i) == OwnValue(result, i)
FormBuilt ==
    pc = "returned" /\ type = "form-data" /\ value.k = "object" /\ result.k = "object"

\* C2: with form-data encoding, a key whose converted value is a single file
\* holds exactly that file, and a key whose converted value is an array of
\* (one or more) files holds exactly those files, in order, as repeated
\* entries; no JSON text entry is stored under such a key.
C2_FilesAttached ==
    FormBuilt =>
        \A i \in 1..Len(FormKeys) :
            /\ IsFile(FormProp(i)) =>
                  EntriesUnder(body.entries, FormKeys[i]) = <<Entry(FormKeys[i], FormProp(i))>>
            /\ (IsFileArray(FormProp(i)) /\ FormProp(i).items # <<>>) =>
                  EntriesUnder(body.entries, FormKeys[i])
                    = [j \in 1..Len(FormProp(i).items) |->
                         Entry(FormKeys[i], FormProp(i).items[j])]

\* C3: with form-data encoding, a key whose converted value is neither a file
\* nor an array of files has a text entry, the JSON serialization of the
\* value, if and only if the value is not empty ('', undefined, null); so
\* false and 0 get a text entry, and an undefined value gets no entry.
C3_TextEntryIffNonEmpty ==
    FormBuilt =>
        \A i \in 1..Len(FormKeys) :
            (~IsFile(FormProp(i)) /\ ~IsFileArray(FormProp(i))) =>
                /\ (EntriesUnder(body.entries, FormKeys[i])
                      = <<Entry(FormKeys[i], JSONstringify(FormProp(i)))>>)
                   <=> ~isEmpty(FormProp(i))
                /\ isEmpty(FormProp(i)) => EntriesUnder(body.entries, FormKeys[i]) = <<>>

IsFieldDefault(n) ==
    n.out = (IF n.schema.type = "boolean" THEN Bool(FALSE) ELSE Str(""))

\* C4, as stated: every required field (the root, a declared property, an
\* array element) whose input is empty ('', absent, null) is in the converted
\* output, with false for a boolean schema and '' otherwise.
C4_RequiredEmptyNeverAbsent ==
    Converted =>
        \A pos \in Positions :
            (isEmpty(NodeAt(pos).raw) /\ NodeAt(pos).schema.isRequired)
                => IsFieldDefault(NodeAt(pos))

\* C4, as amended: a required field whose input is present and empty (the
\* root, an array element, a declared property whose key is one of the input
\* object's keys) converts to false for a boolean schema and '' otherwise; a
\* declared property whose key the input object lacks has no converted value.
C4_RequiredEmptyDefault ==
    Converted =>
        \A pos \in Positions :
            /\ (NodeAt(pos).present /\ isEmpty(NodeAt(pos).raw)
                  /\ NodeAt(pos).schema.isRequired)
                 => IsFieldDefault(NodeAt(pos))
            /\ ~NodeAt(pos).present => NodeAt(pos).out = Missing

C4_Witness ==
    /\ pc = "returned"
    /\ \E pos \in Positions :
          /\ Len(pos) >= 1
          /\ NodeAt(pos).present /\ isEmpty(NodeAt(pos).raw)
          /\ NodeAt(pos).schema.isRequired /\ NodeAt(pos).schema.type = "boolean"
          /\ NodeAt(pos).out = Bool(FALSE)

\* C5: with json encoding, the returned body is a text that parses as JSON,
\* whatever value the converter returned.
C5_JsonBodyIsValidText ==
    (Converted /\ type = "json") =>
        (body.k = "text" /\ ~IsThrow(JSONparse(body.tokens)))

\* C6: convertValue returns for every input: its recursion never exhausts
\* the call stack.
C6_ConversionTerminates ==
    pc \in {"returned", "thrown"} =>
        ~(IsThrow(result) /\ result.name = "RangeError")

RECURSIVE NoAbsentKey(_, _)
\* no object key of v whose value is undefined is a key of the payload
NoAbsentKey(v, pay) ==
    CASE v.k = "object" ->
            \A i \in 1..Len(v.keys) :
                IF v.vals[i].k = "undefined"
                THEN Member(pay, v.keys[i], 0) = Missing
                ELSE NoAbsentKey(v.vals[i], Member(pay, v.keys[i], 0))
      [] v.k = "array" ->
            \A i \in 1..Len(v.items) :
                NoAbsentKey(v.items[i], Member(pay, ToString(i - 1), i))
      [] OTHER -> TRUE

\* C7: the key of an optional field whose input is empty is absent from the
\* payload (the parsed JSON text, the entries of the form container), and no
\* key whose converted value is undefined is in the payload.
C7_OptionalEmptyKeyAbsent ==
    pc = "returned" =>
        /\ \A pos \in Positions :
              (NodeAt(pos).kind = "property" /\ isEmpty(NodeAt(pos).raw)
                 /\ ~NodeAt(pos).schema.isRequired)
                => NodeAt(pos).pay = Missing
        /\ NoAbsentKey(result, Payload(body))

C7_Witness ==
    /\ pc = "returned" /\ type = "json" /\ body.k = "text"
    /\ \E pos \in Positions :
          /\ NodeAt(pos).kind = "property" /\ NodeAt(pos).present
          /\ NodeAt(pos).raw.k = "string"
          /\ ~NodeAt(pos).schema.isRequired
          /\ NodeAt(pos).out = Undef /\ NodeAt(pos).pay = Missing
    /\ Member(Payload(body), "a", 0) = Str("x")

\* C8: a non-empty value whose schema is a switcher converts to what it
\* converts to against the schema bound to its full dot path ('body', then
\* '.<key>' per property and '.<index>' per array element), a null-typed
\* optional schema when the map has no field entry for the path.
C8_SwitcherUsesBoundSchema ==
    /\ (pc \in {"returned", "thrown"} /\ bodySchema.type = "switcher" /\ ~isEmpty(value))
          => result = convertValue(StackLimit, "body", value,
                                   resolve(BoundSchema("body"), references),
                                   references, dynamicFields)
    /\ Converted =>
          \A pos \in Positions :
              (NodeAt(pos).schema.type = "switcher" /\ NodeAt(pos).present
                 /\ ~isEmpty(NodeAt(pos).raw))
                => NodeAt(pos).out
                     = convertValue(StackLimit, NodeAt(pos).path, NodeAt(pos).raw,
                                    resolve(BoundSchema(NodeAt(pos).path), references),
                                    references, dynamicFields)

C8_Witness ==
    /\ pc = "returned"
    /\ \E pos \in Positions :
          /\ NodeAt(pos).path = "body.a.0.b"
          /\ NodeAt(pos).schema.type = "switcher"
          /\ NodeAt(pos).raw = Str("42")
          /\ BoundSchema("body.a.0.b").type = "number"
          /\ NodeAt(pos).out = Num(42)

UndeclaredKeys(n) ==
    {i \in 1..Len(n.raw.keys) : ~Declared(n, n.raw.keys[i])}
HasFieldEntry(path) ==
    path \in DOMAIN dynamicFields /\ dynamicFields[path].type = "field"

\* C9, as stated: an object key that is no declared property is in the
\* converted object with its raw value, when additional properties are not
\* allowed and when they are but the map has no entry for '<path>.<key>'.
C9_UnresolvedPassedThrough ==
    Converted =>
        \A pos \in Positions :
            ObjectMatch(NodeAt(pos)) =>
                \A i \in UndeclaredKeys(NodeAt(pos)) :
                    (~NodeAt(pos).eff.additionalProperties
                       \/ ~HasFieldEntry(NodeAt(pos).path \o "." \o NodeAt(pos).raw.keys[i]))
                      => Member(NodeAt(pos).out, NodeAt(pos).raw.keys[i], 0)
                           = NodeAt(pos).raw.vals[i]

\* C9, as amended: an undeclared key of an object is in the converted object
\* with its raw value when additional properties are not allowed; when they
\* are allowed and the map has no field entry for '<path>.<key>', an empty
\* value becomes undefined and any other value its string form; the other
\* keys of the same object are converted against their schemas.
C9_UnresolvedKeys ==
    Converted =>
        \A pos \in Positions :
            ObjectMatch(NodeAt(pos)) =>
                /\ NodeAt(pos).out.k = "object"
                /\ NodeAt(pos).out.keys = NodeAt(pos).raw.keys
                /\ \A i \in 1..Len(NodeAt(pos).raw.keys) :
                      LET n == NodeAt(pos)
                          key == n.raw.keys[i]
                          raw == n.raw.vals[i]
                          out == n.out.vals[i]
                          path == n.path \o "." \o key
                      IN  IF Declared(n, key)
                          THEN out = convertValue(StackLimit, path, raw,
                                                  resolve(n.eff.properties[key], references),
                                                  references, dynamicFields)
                          ELSE IF ~n.eff.additionalProperties THEN out = raw
                          ELSE IF HasFieldEntry(path)
                          THEN out = convertValue(StackLimit, path, raw,
                                                  resolve(dynamicFields[path].schema, references),
                                                  references, dynamicFields)
                          ELSE out = (IF isEmpty(raw) THEN Undef ELSE Str(JSString(raw)))

C9_Witness ==
    /\ pc = "returned"
    /\ ObjectMatch(RootNode)
    /\ ~bodySchema.additionalProperties
    /\ DOMAIN bodySchema.properties = {"a"}
    /\ value.keys = <<"a", "b">>
    /\ value.vals[1] = Str("42") /\ value.vals[2] = Num(0)
    /\ result = Obj(<<"a", "b">>, <<Num(42), Num(0)>>)

(***************************************************************************)
(* Properties of fetch (Spec).                                             *)
(***************************************************************************)
ConstructionThrew == IsThrow(BuiltHeaders) \/ IsThrow(body)
ThrownByConstruction == IF IsThrow(BuiltHeaders) THEN BuiltHeaders ELSE body
IsFetchResult(o) ==
    o.k = "result" /\ o.status \in Nat /\ o.type \in {"json", "html", "text"}

\* C1, as stated: the promise returned by fetch never rejects, whatever
\* fails, the building of the headers and of the body included.
C1_NeverRejects == outcome.k # "rejected"

\* C1, as amended: the promise rejects exactly when building the headers or
\* the body throws, with that exception and before any request is issued;
\* once the request is issued every failure resolves to a FetchResult.
C1_RejectsOnlyInConstruction ==
    /\ pc = "resolved" => (IsFetchResult(outcome) /\ ~ConstructionThrew)
    /\ pc = "rejected" =>
          /\ ConstructionThrew
          /\ outcome = Rejected(ErrorOfThrow(ThrownByConstruction))
          /\ requests = 0
    /\ IsThrow(body) => pc = "rejected"
    /\ requests > 0 => outcome.k # "rejected"

C1_Witness ==
    /\ pc = "resolved"
    /\ error.k = "error" /\ error.name = "TypeError"
    /\ response = NoResponse
    /\ IsFetchResult(outcome)

ClientSideError(e) ==
    FetchResult(400, "text",
                Str("Client side error: [" \o e.name \o "] " \o e.message))

\* C10, as stated: every invocation issues exactly one request and resolves
\* once; with status 400, type 'text' and the error's name and message when
\* the request failed at transport level or got no response before the
\* timeout (the request then aborted), and with the response's own status
\* otherwise.
C10_OneRequestOneOutcome ==
    pc \in {"resolved", "rejected"} =>
        /\ requests = 1
        /\ settled = 1
        /\ outcome.k = "result"
        /\ IF error.k = "error" /\ response = NoResponse
           THEN /\ outcome = ClientSideError(error)
                /\ error.name = "TimeoutError" => aborted
           ELSE response.k = "response" /\ outcome.status = response.status

\* C10, as amended: an invocation issues at most one request and settles
\* once.  No request is issued when building the headers or the body throws
\* (the promise rejects).  Otherwise one request is issued and never
\* retried; when it fails, when the timeout signal fires (not before 6000 ms,
\* aborting the request or the reading of the response body) or when the
\* response body cannot be read or decoded, the invocation resolves with
\* status 400, type 'text' and 'Client side error: [name] message';
\* otherwise it resolves with the response's own status.
C10_SingleRequestSingleOutcome ==
    /\ requests <= 1
    /\ settled <= 1
    /\ pc \in {"resolved", "rejected"} <=> settled = 1
    /\ pc = "rejected" => requests = 0
    /\ pc = "resolved" =>
          /\ requests = 1
          /\ IF error.k = "error"
             THEN outcome = ClientSideError(error)
             ELSE /\ response.k = "response"
                  /\ ~IsThrow(ResponseData(response))
                  /\ outcome.status = response.status
    /\ aborted <=> (error.k = "error" /\ error.name = "TimeoutError")
    /\ aborted => clock >= TimeoutMs

C10_Witness ==
    /\ pc = "resolved"
    /\ aborted
    /\ response = NoResponse
    /\ requests = 1 /\ settled = 1
    /\ outcome.status = 400 /\ outcome.type = "text"
    /\ outcome.data = Str("Client side error: [TimeoutError] signal timed out")

====
